---------------------------- MODULE Spec2Model ----------------------------
(***************************************************************************)
(* A model of the file-backed indexer of HalIndexer: WordDictionary,       *)
(* ForwardIndex, ReverseIndex and the Indexer facade of                    *)
(* src/index/indexer.py, with the record codecs of src/index/entry.py.     *)
(*                                                                         *)
(* Conventions of the model                                                *)
(*  - a Python str is a sequence of one-character strings;                 *)
(*  - a Python dict is an association list (a sequence of <<key, value>>   *)
(*    pairs with distinct keys, in insertion order);                       *)
(*  - a dict key that is a Python int n is <<"int", n>>, a key that is a   *)
(*    Python str is <<"str", s>>; the str that json writes for the int n   *)
(*    is <<"str", n>>;                                                     *)
(*  - a binary file is the sequence of the integer fields written to it,   *)
(*    and offsets and lengths count fields instead of bytes;               *)
(*  - a rank is an exact fraction <<numerator, denominator>> (the code     *)
(*    uses floats).                                                        *)
(***************************************************************************)
EXTENDS Integers, Sequences, FiniteSets, TLC

(***************************************************************************)
(* Bounds of the model.                                                    *)
(***************************************************************************)
MaxSessions == 3
MaxIndexCalls == 3
MaxWords == 3
MaxHitCount == 2
MaxFileLen == 4
RecursionLimit == 5

(***************************************************************************)
(* Program constants.                                                      *)
(***************************************************************************)
TEXT_HIT == 1
ANCHOR_HIT == 2
TITLE_HIT == 3
HEADER_HIT == 4
URL_HIT == 5
REFERENCE_HIT == 6
\* dampener = 0.8 = DampenerNum / DampenerDen
DampenerNum == 4
DampenerDen == 5

(***************************************************************************)
(* Python dicts as association lists.                                      *)
(***************************************************************************)
EmptyDict == << >>

Keys(d) == { d[i][1] : i \in DOMAIN d }

Has(d, k) == k \in Keys(d)

Get(d, k) == d[CHOOSE i \in DOMAIN d : d[i][1] = k][2]

\* d[k] = v : replaces the value in place, or appends a new pair
Put(d, k, v) ==
    IF Has(d, k)
    THEN [i \in DOMAIN d |-> IF d[i][1] = k THEN <<k, v>> ELSE d[i]]
    ELSE Append(d, <<k, v>>)

IntKey(n) == <<"int", n>>

StrKey(s) == <<"str", s>>

(***************************************************************************)
(* Strings.                                                                *)
(***************************************************************************)
\* string.punctuation, restricted to the characters of the model
Punctuation == {".", ",", "'", "(", ")", ":", "/"}

\* the characters str.rstrip() removes
Whitespace == {" ", "\n", "\t"}

LowerChar(c) ==
    CASE c = "P" -> "p"
      [] c = "T" -> "t"
      [] c = "A" -> "a"
      [] OTHER -> c

\* str.lower()
Lower(s) == [i \in DOMAIN s |-> LowerChar(s[i])]

\* str.rstrip()
RECURSIVE RStrip(_)
RStrip(s) ==
    IF Len(s) > 0 /\ s[Len(s)] \in Whitespace
    THEN RStrip(SubSeq(s, 1, Len(s) - 1))
    ELSE s

stripe_enclosing_punctuation(target) ==
    IF Len(target) = 0
    THEN target
    ELSE LET lower_bound == IF target[1] \in Punctuation THEN 1 ELSE 0
             upper_bound == IF target[Len(target)] \in Punctuation
                            THEN Len(target) - 1 ELSE Len(target)
         IN  SubSeq(target, lower_bound + 1, upper_bound)

\* the normalisation at the head of WordDictionary.get_word_id
Normalize(word) == Lower(stripe_enclosing_punctuation(RStrip(word)))

\* str.split(" ")
RECURSIVE SplitFrom(_, _, _)
SplitFrom(s, i, cur) ==
    IF i > Len(s) THEN <<cur>>
    ELSE IF s[i] = " " THEN <<cur>> \o SplitFrom(s, i + 1, << >>)
    ELSE SplitFrom(s, i + 1, Append(cur, s[i]))

Split(s) == SplitFrom(s, 1, << >>)

(***************************************************************************)
(* entry.py : DictionaryEntry / WordDictionaryEntry.  Key and value are    *)
(* strs; the value of a WordDictionaryEntry is str(word_id) when the entry *)
(* is created and the text after the last colon of its line when it is     *)
(* read.  The dictionary file is a text: the sequence of its characters.   *)
(***************************************************************************)
Digits == <<"0", "1", "2", "3", "4", "5", "6", "7", "8", "9">>

IsDigit(c) == \E d \in DOMAIN Digits : Digits[d] = c

DigitValue(c) == (CHOOSE d \in DOMAIN Digits : Digits[d] = c) - 1

\* str(n) of an int n >= 0
RECURSIVE Str(_)
Str(n) ==
    IF n < 10 THEN <<Digits[n + 1]>>
    ELSE Str(n \div 10) \o <<Digits[(n % 10) + 1]>>

\* the leading whitespace that int() skips
RECURSIVE LStrip(_)
LStrip(s) ==
    IF Len(s) > 0 /\ s[1] \in Whitespace THEN LStrip(Tail(s)) ELSE s

\* the value of a run of decimal digits
RECURSIVE DigitsValue(_, _)
DigitsValue(s, acc) ==
    IF Len(s) = 0 THEN acc
    ELSE DigitsValue(Tail(s), 10 * acc + DigitValue(s[1]))

\* the text int() parses: surrounding whitespace is ignored
IntText(s) == LStrip(RStrip(s))

\* int(s) raises ValueError unless the text is a non-empty run of digits
\* (the model has no sign or underscore characters)
IntOk(s) == Len(IntText(s)) > 0 /\ \A i \in DOMAIN IntText(s) : IsDigit(IntText(s)[i])

ParseInt(s) == DigitsValue(IntText(s), 0)

\* WordDictionaryEntry(word, word_id): DictionaryEntry.__init__ stores
\* str(word_id)
WordDictionaryEntry(word, id) == [key |-> word, value |-> Str(id)]

\* the positions of the colons of a text
Colons(data) == { i \in DOMAIN data : data[i] = ":" }

\* the position of the last colon of a text that has one
LastColon(data) == CHOOSE i \in Colons(data) : \A j \in Colons(data) : j <= i

\* DictionaryEntry.unpack: the parts of data.split(":") but the last are
\* joined again into the key, the last part is the value; a text without a
\* colon is its own key and value
DictionaryEntryUnpack(data) ==
    IF Colons(data) = {}
    THEN [key |-> data, value |-> data]
    ELSE [key |-> SubSeq(data, 1, LastColon(data) - 1),
          value |-> SubSeq(data, LastColon(data) + 1, Len(data))]

\* DictionaryEntry.pack
DictionaryEntryPack(entry) == entry.key \o <<":">> \o entry.value

\* the word_id property: int(self.value)
WordIdOk(entry) == IntOk(entry.value)

WordId(entry) == ParseInt(entry.value)

\* the lines a text file yields when it is iterated: each keeps its
\* terminator, the last one may have none
RECURSIVE FileLines(_, _, _)
FileLines(text, i, cur) ==
    IF i > Len(text) THEN (IF Len(cur) = 0 THEN << >> ELSE <<cur>>)
    ELSE IF text[i] = "\n"
    THEN <<Append(cur, text[i])>> \o FileLines(text, i + 1, << >>)
    ELSE FileLines(text, i + 1, Append(cur, text[i]))

(***************************************************************************)
(* WordDictionary.  wd = [dictionary, current_id].                         *)
(***************************************************************************)
NewWordDictionary == [dictionary |-> EmptyDict, current_id |-> 0]

\* the loop of WordDictionary.load over the lines of the file; stops at the
\* line whose word_id raises ValueError
RECURSIVE LoadLines(_, _, _)
LoadLines(wd, lines, i) ==
    IF i > Len(lines)
    THEN [wd |-> wd, error |-> "none"]
    ELSE LET dic_entry == DictionaryEntryUnpack(lines[i])
             stored == Put(wd.dictionary, dic_entry.key, dic_entry)
         IN  IF ~WordIdOk(dic_entry)
             THEN [wd |-> [wd EXCEPT !.dictionary = stored],
                   error |-> "ValueError"]
             ELSE LoadLines(
                    [dictionary |-> stored,
                     current_id |-> IF WordId(dic_entry) > wd.current_id
                                    THEN WordId(dic_entry)
                                    ELSE wd.current_id],
                    lines, i + 1)

\* WordDictionary.load without the increment of the finally clause
WordDictionaryLoadWithoutFinally(wd, file) ==
    LET r == LoadLines(wd, FileLines(file, 1, << >>), 1)
    IN  [wd |-> r.wd, error |-> r.error]

\* WordDictionary.load: the finally clause adds 1 on every path
WordDictionaryLoad(wd, file) ==
    LET r == LoadLines(wd, FileLines(file, 1, << >>), 1)
    IN  [wd |-> [r.wd EXCEPT !.current_id = r.wd.current_id + 1],
         error |-> r.error]

\* WordDictionary.close: the text the file is rewritten with
RECURSIVE WordDictionaryLines(_, _)
WordDictionaryLines(dictionary, i) ==
    IF i > Len(dictionary) THEN << >>
    ELSE DictionaryEntryPack(dictionary[i][2]) \o <<"\n">>
         \o WordDictionaryLines(dictionary, i + 1)

WordDictionaryClose(wd) == WordDictionaryLines(wd.dictionary, 1)

\* the body of WordDictionary.get_word_id below the normalisation: the id
\* of the normalised word, and the dictionary after the call
WordIdOfNormalized(wd, word) ==
    IF Has(wd.dictionary, word)
    THEN [wd |-> wd, word_id |-> WordId(Get(wd.dictionary, word))]
    ELSE [wd |-> [dictionary |-> Put(wd.dictionary, word,
                                     WordDictionaryEntry(word, wd.current_id)),
                  current_id |-> wd.current_id + 1],
          word_id |-> wd.current_id]

\* WordDictionary.get_word_id: the id, and the dictionary after the call
get_word_id(wd, rawword) == WordIdOfNormalized(wd, Normalize(rawword))

(***************************************************************************)
(* entry.py : Hit and ForwardIndexEntry.  A Hit is <<kind, section,        *)
(* position>>; an entry is [page_id, hits] with hits a dict from word id   *)
(* to list of Hit.                                                         *)
(***************************************************************************)
Hit(kind, section, position) == <<kind, section, position>>

\* Hit.pack: the three fields
HitPack(hit) == <<hit[1], hit[2], hit[3]>>

\* Hit.unpack
HitUnpack(data) == Hit(data[1], data[2], data[3])

RECURSIVE PackHits(_, _)
PackHits(hit_list, i) ==
    IF i > Len(hit_list) THEN << >>
    ELSE HitPack(hit_list[i]) \o PackHits(hit_list, i + 1)

\* hit_count hits read from data, starting after position pos
RECURSIVE UnpackHits(_, _, _)
UnpackHits(data, pos, hit_count) ==
    IF hit_count = 0 THEN << >>
    ELSE <<HitUnpack(SubSeq(data, pos + 1, pos + 3))>>
         \o UnpackHits(data, pos + 3, hit_count - 1)

RECURSIVE PackWords(_, _)
PackWords(hits, i) ==
    IF i > Len(hits) THEN << >>
    ELSE <<hits[i][1][2], Len(hits[i][2])>> \o PackHits(hits[i][2], 1)
         \o PackWords(hits, i + 1)

\* ForwardIndexEntry.pack
ForwardIndexEntryPack(entry) ==
    <<entry.page_id, Len(entry.hits)>> \o PackWords(entry.hits, 1)

RECURSIVE UnpackWords(_, _, _, _)
UnpackWords(data, pos, word_counts, hits) ==
    IF word_counts = 0 THEN hits
    ELSE LET word_id == data[pos + 1]
             hit_count == data[pos + 2]
         IN  UnpackWords(data, pos + 2 + 3 * hit_count, word_counts - 1,
                         Put(hits, IntKey(word_id),
                             UnpackHits(data, pos + 2, hit_count)))

\* ForwardIndexEntry.unpack
ForwardIndexEntryUnpack(data) ==
    [page_id |-> data[1], hits |-> UnpackWords(data, 2, data[2], EmptyDict)]

(***************************************************************************)
(* merge_list_dictionaries                                                 *)
(***************************************************************************)
RECURSIVE MergeOne(_, _, _)
MergeOne(result_dict, dictionary, i) ==
    IF i > Len(dictionary) THEN result_dict
    ELSE LET key == dictionary[i][1]
             old == IF Has(result_dict, key) THEN Get(result_dict, key)
                    ELSE << >>
         IN  MergeOne(Put(result_dict, key, old \o dictionary[i][2]),
                      dictionary, i + 1)

RECURSIVE MergeFrom(_, _, _)
MergeFrom(result_dict, dictionaries, i) ==
    IF i > Len(dictionaries) THEN result_dict
    ELSE MergeFrom(MergeOne(result_dict, dictionaries[i], 1),
                   dictionaries, i + 1)

merge_list_dictionaries(dictionaries) == MergeFrom(EmptyDict, dictionaries, 1)

(***************************************************************************)
(* ForwardIndex.  fwd = [position_mapping, index_size]; the forward file   *)
(* is a sequence of frames <<size>> \o packed entry.                       *)
(***************************************************************************)
\* the loop of ForwardIndex._scan_section over the words of one section;
\* words[count + 1] is the word that enumerate() numbers count
\* result[word_id].append(hit), the list being created on the first hit
AppendHit(result, key, hit) ==
    Put(result, key,
        Append(IF Has(result, key) THEN Get(result, key) ELSE << >>, hit))

RECURSIVE ScanWords(_, _, _, _, _, _)
ScanWords(wd, words, count, section_num, kind, result) ==
    IF count >= Len(words)
    THEN [wd |-> wd, result |-> result]
    ELSE LET r == get_word_id(wd, words[count + 1])
         IN  ScanWords(r.wd, words, count + 1, section_num, kind,
                       AppendHit(result, IntKey(r.word_id),
                                 Hit(kind, section_num, count)))

scan_section(wd, section_num, section, kind) ==
    ScanWords(wd, Split(section), 0, section_num, kind, EmptyDict)

\* the loop of ForwardIndex._scan_hits over the sections
RECURSIVE ScanSections(_, _, _, _, _)
ScanSections(wd, sections, count, kind, master_result) ==
    IF count >= Len(sections)
    THEN [wd |-> wd, result |-> master_result]
    ELSE LET r == scan_section(wd, count, sections[count + 1], kind)
         IN  ScanSections(r.wd, sections, count + 1, kind,
                          merge_list_dictionaries(<<master_result, r.result>>))

scan_hits(wd, sections, kind) == ScanSections(wd, sections, 0, kind, EmptyDict)

\* ForwardIndex._anchor_to_hits: the texts of the anchors
AnchorTexts(anchors) == [i \in DOMAIN anchors |-> anchors[i].text]

\* a scan whose result is put before the results of the earlier scans
ScanNextFirst(scanned, sections, kind) ==
    LET r == scan_hits(scanned.wd, sections, kind)
    IN  [wd |-> r.wd, results |-> <<r.result>> \o scanned.results]

\* one of the five scans of ForwardIndex.index: scanned is the word
\* dictionary and the list of the results of the scans made so far
ScanNext(scanned, sections, kind) ==
    LET r == scan_hits(scanned.wd, sections, kind)
    IN  [wd |-> r.wd, results |-> Append(scanned.results, r.result)]

\* the title, header, text, anchor and url scans of ForwardIndex.index, in
\* the order of the code
FiveScans(wd, data) ==
    ScanNext(
      ScanNext(
        ScanNext(
          ScanNext(
            ScanNext([wd |-> wd, results |-> << >>],
                     <<data.title>>, TITLE_HIT),
            data.headers, HEADER_HIT),
          data.texts, TEXT_HIT),
        AnchorTexts(data.anchors), ANCHOR_HIT),
      <<data.url>>, URL_HIT)

\* the entry ForwardIndex.index builds from the five results
MergedEntry(page_id, scanned) ==
    [wd |-> scanned.wd,
     entry |-> [page_id |-> page_id,
                hits |-> merge_list_dictionaries(scanned.results)]]

\* ForwardIndex.index up to the call of _write_forward_entry: the entry and
\* the word dictionary after the five scans
ForwardScan(wd, data) == MergedEntry(data.doc_id, FiveScans(wd, data))

\* the frame _write_forward_entry appends: the size, then the packed entry
ForwardFrame(entry) ==
    LET forward_binary == ForwardIndexEntryPack(entry)
    IN  <<Len(forward_binary)>> \o forward_binary

\* ForwardIndex._write_forward_entry
write_forward_entry(fwd, file, entry) ==
    LET data == ForwardFrame(entry)
    IN  [file |-> file \o data,
         fwd |-> [position_mapping |-> Put(fwd.position_mapping,
                                           IntKey(entry.page_id),
                                           fwd.index_size),
                  index_size |-> fwd.index_size + Len(data)]]

\* ForwardIndex._read_forward_entry on the file seeked to position
read_forward_entry(file, position) ==
    LET size == file[position + 1]
    IN  ForwardIndexEntryUnpack(SubSeq(file, position + 2, position + 1 + size))

NoEntry == [page_id |-> -1, hits |-> EmptyDict]

\* ForwardIndex.get_entry; page_id is the dict key the caller passes
\* (IntKey(n) for the integer n); NoEntry stands for None
get_entry(fwd, file, page_id) ==
    IF ~Has(fwd.position_mapping, page_id)
    THEN NoEntry
    ELSE read_forward_entry(file, Get(fwd.position_mapping, page_id))

(***************************************************************************)
(* entry.py : ReverseIndexEntry and LexiconEntry.                          *)
(***************************************************************************)
\* ReverseIndexEntry.pack: length, page id, hit count, hits
ReverseIndexEntryPack(e) ==
    LET meta_bytes == <<e.page_id, Len(e.hits)>> \o PackHits(e.hits, 1)
    IN  <<Len(meta_bytes)>> \o meta_bytes

\* ReverseIndexEntry.unpack: the word id is not stored and comes back as 0
ReverseIndexEntryUnpack(data) ==
    [word_id |-> 0, page_id |-> data[2], hits |-> UnpackHits(data, 3, data[3])]

\* LexiconEntry.pack
LexiconEntryPack(word_id, pages) ==
    LET result == <<word_id, Len(pages)>> \o pages
    IN  <<Len(result)>> \o result

\* an unpack that leaves out the last page of the record
LexiconEntryUnpackWithoutLast(data) ==
    [word_id |-> data[2], pages |-> SubSeq(data, 4, 2 + data[3])]

\* LexiconEntry.unpack
LexiconEntryUnpack(data) ==
    [word_id |-> data[2], pages |-> SubSeq(data, 4, 3 + data[3])]

(***************************************************************************)
(* ReverseIndex.  The lexicon is a dict word id -> SortedList of page ids; *)
(* the segment files are a dict str(word id) -> sequence of frames.        *)
(***************************************************************************)
\* SortedList.add: a sorted list keeps equal elements
SortedListAdd(list, x) ==
    LET n == Cardinality({i \in DOMAIN list : list[i] <= x})
    IN  SubSeq(list, 1, n) \o <<x>> \o SubSeq(list, n + 1, Len(list))

\* ReverseIndex._insert_to_lexicon
insert_to_lexicon(lexicon, word_id, page_id) ==
    LET key == IntKey(word_id)
        old == IF Has(lexicon, key) THEN Get(lexicon, key) ELSE << >>
    IN  Put(lexicon, key, SortedListAdd(old, page_id))

\* ReverseIndex._convert_to_reverse_indexes: one entry per word
RECURSIVE convert_to_reverse_indexes(_, _)
convert_to_reverse_indexes(forward_entry, i) ==
    IF i > Len(forward_entry.hits) THEN EmptyDict
    ELSE <<
           <<forward_entry.hits[i][1],
             << [word_id |-> forward_entry.hits[i][1][2],
                 page_id |-> forward_entry.page_id,
                 hits |-> forward_entry.hits[i][2]] >> >>
         >> \o convert_to_reverse_indexes(forward_entry, i + 1)

RECURSIVE PackEntries(_, _)
PackEntries(entries, i) ==
    IF i > Len(entries) THEN << >>
    ELSE ReverseIndexEntryPack(entries[i]) \o PackEntries(entries, i + 1)

\* a file loop that writes the records at the start of the segment
RECURSIVE WriteSegmentsInFront(_, _, _)
WriteSegmentsInFront(files, reverse_entries, n) ==
    IF n = 0 THEN files
    ELSE LET before == WriteSegmentsInFront(files, reverse_entries, n - 1)
             file_id == StrKey(reverse_entries[n][1][2])
             old == IF Has(before, file_id) THEN Get(before, file_id)
                    ELSE << >>
         IN  Put(before, file_id, PackEntries(reverse_entries[n][2], 1) \o old)

\* the file loop of ReverseIndex.index over the first n words
RECURSIVE WriteSegments(_, _, _)
WriteSegments(files, reverse_entries, n) ==
    IF n = 0 THEN files
    ELSE LET before == WriteSegments(files, reverse_entries, n - 1)
             file_id == StrKey(reverse_entries[n][1][2])
             old == IF Has(before, file_id) THEN Get(before, file_id)
                    ELSE << >>
         IN  Put(before, file_id, old \o PackEntries(reverse_entries[n][2], 1))

RECURSIVE InsertEntries(_, _, _, _)
InsertEntries(lexicon, word_id, entries, i) ==
    IF i > Len(entries) THEN lexicon
    ELSE InsertEntries(insert_to_lexicon(lexicon, word_id, entries[i].page_id),
                       word_id, entries, i + 1)

\* ReverseIndex._add_to_lexicon
RECURSIVE add_to_lexicon(_, _, _)
add_to_lexicon(lexicon, reverse_entries, i) ==
    IF i > Len(reverse_entries) THEN lexicon
    ELSE add_to_lexicon(
           InsertEntries(lexicon, reverse_entries[i][1][2],
                         reverse_entries[i][2], 1),
           reverse_entries, i + 1)

\* ReverseIndex.index
ReverseIndexIndex(files, lexicon, forward_entry) ==
    LET reverse_entries == convert_to_reverse_indexes(forward_entry, 1)
    IN  [files |-> WriteSegments(files, reverse_entries, Len(reverse_entries)),
         lexicon |-> add_to_lexicon(lexicon, reverse_entries, 1)]

\* ReverseIndex.get_page_ids
get_page_ids(lexicon, word_id) ==
    IF Has(lexicon, IntKey(word_id)) THEN Get(lexicon, IntKey(word_id))
    ELSE << >>

\* the loop of ReverseIndex._load_reverse_entries over the frames
RECURSIVE LoadFrames(_, _)
LoadFrames(data, start) ==
    IF start >= Len(data) THEN << >>
    ELSE LET entry_len == data[start + 1]
         IN  <<ReverseIndexEntryUnpack(
                 SubSeq(data, start + 1, start + entry_len + 1))>>
             \o LoadFrames(data, start + entry_len + 1)

\* ReverseIndex.get_entries: the entries of the segment, with the word id
\* restored
get_entries(files, word_id) ==
    LET data == IF Has(files, StrKey(word_id)) THEN Get(files, StrKey(word_id))
                ELSE << >>
        entries == LoadFrames(data, 0)
    IN  [i \in DOMAIN entries |-> [entries[i] EXCEPT !.word_id = word_id]]

RECURSIVE InsertPages(_, _, _, _)
InsertPages(lexicon, word_id, pages, i) ==
    IF i > Len(pages) THEN lexicon
    ELSE InsertPages(insert_to_lexicon(lexicon, word_id, pages[i]),
                     word_id, pages, i + 1)

\* ReverseIndex._load_lexicon: every page of every record is inserted
RECURSIVE load_lexicon(_, _, _)
load_lexicon(lexicon, lexicon_data, start) ==
    IF start >= Len(lexicon_data) THEN lexicon
    ELSE LET entry_len == lexicon_data[start + 1]
             entry == LexiconEntryUnpack(
                        SubSeq(lexicon_data, start + 1, start + entry_len + 1))
         IN  load_lexicon(InsertPages(lexicon, entry.word_id, entry.pages, 1),
                          lexicon_data, start + entry_len + 1)

RECURSIVE LexiconRecords(_, _)
LexiconRecords(lexicon, i) ==
    IF i > Len(lexicon) THEN << >>
    ELSE LexiconEntryPack(lexicon[i][1][2], lexicon[i][2])
         \o LexiconRecords(lexicon, i + 1)

\* ReverseIndex._write_lexicon: the file is opened for appending
write_lexicon(file, lexicon) == file \o LexiconRecords(lexicon, 1)

(***************************************************************************)
(* entry.py : dump_dictionary / load_dictionary.  A json file is           *)
(* [exists, data]; data is the sequence of the pairs written, in order,    *)
(* each key turned into a str.                                             *)
(***************************************************************************)
NoFile == [exists |-> FALSE, data |-> << >>]

\* json.dump writes every key as a str
JsonKey(k) == <<"str", k[2]>>

dump_dictionary(dictionary) ==
    [exists |-> TRUE,
     data |-> [i \in DOMAIN dictionary |->
                 <<JsonKey(dictionary[i][1]), dictionary[i][2]>>]]

\* json.load: a key written twice keeps its last value
RECURSIVE JsonLoad(_, _, _)
JsonLoad(data, i, result) ==
    IF i > Len(data) THEN result
    ELSE JsonLoad(data, i + 1, Put(result, data[i][1], data[i][2]))

load_dictionary(text_file) ==
    IF ~text_file.exists THEN EmptyDict
    ELSE JsonLoad(text_file.data, 1, EmptyDict)

(***************************************************************************)
(* Fractions, for the rank arithmetic.                                     *)
(***************************************************************************)
RECURSIVE GCD(_, _)
GCD(a, b) == IF b = 0 THEN a ELSE GCD(b, a % b)

Frac(n, d) == LET g == GCD(n, d) IN IF g = 0 THEN <<n, d>> ELSE <<n \div g, d \div g>>

FracAdd(x, y) == Frac(x[1] * y[2] + y[1] * x[2], x[2] * y[2])

FracDiv(x, k) == Frac(x[1], x[2] * k)

FracLess(x, y) == x[1] * y[2] < y[1] * x[2]

\* rand_probability set to the dampener itself
rand_probability_dampener == Frac(DampenerNum, DampenerDen)

\* rand_probability = 1 - self._dampener
rand_probability == Frac(DampenerDen - DampenerNum, DampenerDen)

(***************************************************************************)
(* Indexer: the rank computation.  links is the link-graph state           *)
(* [link_out_counts, references_tracker, url_page_id_mapper,               *)
(* page_id_url_mapper].  depth counts the nested calls; Python raises      *)
(* RecursionError when it passes the recursion limit.  A call returns      *)
(* [error, value, tracker].                                                *)
(***************************************************************************)
RECURSIVE page_rank_recursive(_, _, _, _)
RECURSIVE RankLoop(_, _, _, _, _, _)

\* the for loop of _page_rank_recursive over the referrers refs[i..]
RankLoop(links, refs, i, link_probability, tracker, depth) ==
    IF i > Len(refs)
    THEN [error |-> "none", value |-> link_probability, tracker |-> tracker]
    ELSE LET page == refs[i]
             r == page_rank_recursive(links, page, tracker, depth + 1)
         IN  IF r.error # "none" THEN r
             ELSE IF ~Has(links.link_out_counts, IntKey(page))
             THEN [error |-> "KeyError", value |-> link_probability,
                   tracker |-> r.tracker]
             ELSE IF Get(links.link_out_counts, IntKey(page)) = 0
             THEN [error |-> "ZeroDivisionError", value |-> link_probability,
                   tracker |-> r.tracker]
             ELSE RankLoop(links, refs, i + 1,
                           FracAdd(link_probability,
                                   FracDiv(r.value,
                                           Get(links.link_out_counts,
                                               IntKey(page)))),
                           r.tracker, depth)

page_rank_recursive(links, page_id, tracker, depth) ==
    IF depth > RecursionLimit
    THEN [error |-> "RecursionError", value |-> Frac(0, 1), tracker |-> tracker]
    ELSE IF Has(tracker, IntKey(page_id))
    THEN [error |-> "none", value |-> Get(tracker, IntKey(page_id)),
          tracker |-> tracker]
    ELSE IF ~Has(links.page_id_url_mapper, IntKey(page_id))
    THEN [error |-> "none", value |-> rand_probability, tracker |-> tracker]
    ELSE LET url == Get(links.page_id_url_mapper, IntKey(page_id))
             refs == IF Has(links.references_tracker, StrKey(url))
                     THEN Get(links.references_tracker, StrKey(url))
                     ELSE << >>
             loop == RankLoop(links, refs, 1, Frac(0, 1), tracker, depth)
         IN  IF loop.error # "none" THEN loop
             ELSE LET page_rank == FracAdd(rand_probability, loop.value)
                  IN  [error |-> "none", value |-> page_rank,
                       tracker |-> Put(loop.tracker, IntKey(page_id), page_rank)]

\* Indexer._page_rank: a fresh tracker for every page
page_rank(links, page_id) == page_rank_recursive(links, page_id, EmptyDict, 1)

\* the dict comprehension of search_by_keywords over pages[i..]
RECURSIVE RankPages(_, _, _, _)
RankPages(links, pages, i, ranked_pages) ==
    IF i > Len(pages)
    THEN [error |-> "none", ranked_pages |-> ranked_pages]
    ELSE LET r == page_rank(links, pages[i])
         IN  IF r.error # "none"
             THEN [error |-> r.error, ranked_pages |-> ranked_pages]
             ELSE RankPages(links, pages, i + 1,
                            Put(ranked_pages, pages[i], r.value))

\* a descending sort that puts an item before the items of equal rank
SortedInsertBeforeEqual(sorted, item) ==
    LET n == Cardinality({j \in DOMAIN sorted : FracLess(item[2], sorted[j][2])})
    IN  SubSeq(sorted, 1, n) \o <<item>> \o SubSeq(sorted, n + 1, Len(sorted))

\* sorted(items, key = rank, reverse = True) is stable: an item goes after
\* every item already placed whose rank is not lower
SortedInsert(sorted, item) ==
    LET n == Cardinality({j \in DOMAIN sorted : ~FracLess(sorted[j][2], item[2])})
    IN  SubSeq(sorted, 1, n) \o <<item>> \o SubSeq(sorted, n + 1, Len(sorted))

RECURSIVE SortedByRank(_, _, _)
SortedByRank(items, i, sorted) ==
    IF i > Len(items) THEN sorted
    ELSE SortedByRank(items, i + 1, SortedInsert(sorted, items[i]))

\* Indexer.search_by_keywords after the keyword is mapped to keyword_id
\* the page ids of a list of <<page id, rank>> pairs
PageIdsOf(sorted) == [j \in DOMAIN sorted |-> sorted[j][1]]

\* the sort and the list comprehension of search_by_keywords
SortedPages(ranked) ==
    IF ranked.error # "none"
    THEN [error |-> ranked.error, sorted_pages |-> << >>]
    ELSE [error |-> "none",
          sorted_pages |-> PageIdsOf(SortedByRank(ranked.ranked_pages, 1, << >>))]

SearchPages(links, lexicon, keyword_id) ==
    SortedPages(RankPages(links, get_page_ids(lexicon, keyword_id), 1,
                          EmptyDict))

(***************************************************************************)
(* The documents and keywords the environment may present.                 *)
(***************************************************************************)
Urls == { <<"a">>, <<"b">>, <<"c">> }

DocIds == {1, 2, 3}

Anchor(text, url) == [text |-> text, url |-> url]

PageDocument(doc_id, title, url, anchors, texts, headers) ==
    [doc_id |-> doc_id, title |-> title, url |-> url, anchors |-> anchors,
     texts |-> texts, headers |-> headers]

\* the three pages of TestIndexer.create_simple_multipage_data, shortened:
\* Page1 has no anchor, Page2 links to Page1, Page3 links to Page2 and Page1
Page1 == PageDocument(3, <<"P">>, <<"a">>, << >>, << >>, << >>)

Page2 == PageDocument(1, <<"P">>, <<"b">>, <<Anchor(<<"x">>, <<"a">>)>>,
                      << >>, << >>)

Page3 == PageDocument(2, <<"P">>, <<"c">>,
                      <<Anchor(<<"x">>, <<"b">>), Anchor(<<"x">>, <<"a">>)>>,
                      << >>, << >>)

\* a page at Page1's url that links to Page2 (a cycle with Page2), under
\* Page3's doc_id
PageBack == PageDocument(2, <<"P">>, <<"a">>, <<Anchor(<<"x">>, <<"b">>)>>,
                         << >>, << >>)

\* a page that links to its own url
PageSelf == PageDocument(2, <<"P">>, <<"b">>, <<Anchor(<<"x">>, <<"b">>)>>,
                         << >>, << >>)

\* a page without anchors under Page2's doc_id, with a header and a text
PagePlain == PageDocument(1, <<"P", ".", " ", "T">>, <<"c">>, << >>,
                          << <<"P", " ", "t">>, <<"t", " ", " ", "t">> >>,
                          << <<"T">> >>)

\* a page with two anchors to the same url
PageTwice == PageDocument(2, <<"P">>, <<"c">>,
                          <<Anchor(<<"x">>, <<"a">>), Anchor(<<"x">>, <<"a">>)>>,
                          << >>, << >>)

PageDocuments ==
    {Page1, Page2, Page3, PageBack, PageSelf, PagePlain, PageTwice}

Keywords == { <<"P">>, <<"x">> }

NoDocument ==
    [doc_id |-> 0, title |-> << >>, url |-> << >>, anchors |-> << >>,
     texts |-> << >>, headers |-> << >>]

(***************************************************************************)
(* The state: the fields of the Indexer and of its three components, the   *)
(* files of the index directory, and the record of the calls made.         *)
(***************************************************************************)
VARIABLES
    phase,                \* "constructed", "open", "closed", "crashed" (load
                          \* raised) or "failed" (index raised)
    session,              \* the number of Indexer objects constructed so far
    dictionary,           \* WordDictionary._dictionary
    current_id,           \* WordDictionary.current_id
    position_mapping,     \* ForwardIndex._position_mapping
    index_size,           \* ForwardIndex._index_size
    lexicon,              \* ReverseIndex._lexicon
    link_out_counts,      \* Indexer._link_out_counts
    references_tracker,   \* Indexer._references_tracker
    url_page_id_mapper,   \* Indexer._url_page_id_mapper
    page_id_url_mapper,   \* Indexer._page_id_url_mapper
    files,                \* the files of the index directory
    lastOp,               \* the last call and its outcome
    indexed,              \* the documents index() went through with, in
                          \* order: [data, session, entry]
    issued                \* the <<word, id>> pairs get_word_id has made, in
                          \* order, over all sessions

vars == <<phase, session, dictionary, current_id, position_mapping, index_size,
          lexicon, link_out_counts, references_tracker, url_page_id_mapper,
          page_id_url_mapper, files, lastOp, indexed, issued>>

\* the in-memory state of the Indexer and its components
memory == <<dictionary, current_id, position_mapping, index_size, lexicon,
            link_out_counts, references_tracker, url_page_id_mapper,
            page_id_url_mapper>>

wd == [dictionary |-> dictionary, current_id |-> current_id]

fwd == [position_mapping |-> position_mapping, index_size |-> index_size]

links == [link_out_counts |-> link_out_counts,
          references_tracker |-> references_tracker,
          url_page_id_mapper |-> url_page_id_mapper,
          page_id_url_mapper |-> page_id_url_mapper]

Op(op, doc, keyword, status, result) ==
    [op |-> op, doc |-> doc, keyword |-> keyword, status |-> status,
     result |-> result]

\* Indexer.__init__ in a new directory: ForwardIndex.__init__ creates the
\* forward file; no other file exists
Init ==
    /\ phase = "constructed"
    /\ session = 1
    /\ dictionary = EmptyDict
    /\ current_id = 0
    /\ position_mapping = EmptyDict
    /\ index_size = 0
    /\ lexicon = EmptyDict
    /\ link_out_counts = EmptyDict
    /\ references_tracker = EmptyDict
    /\ url_page_id_mapper = EmptyDict
    /\ page_id_url_mapper = EmptyDict
    /\ files = [word_dict |-> << >>, forward_index |-> << >>,
                forward_index_map |-> NoFile, reverse_indexes |-> EmptyDict,
                lexicon |-> << >>, link_out |-> NoFile,
                reference_count |-> NoFile, url_mapper |-> NoFile,
                page_id_mapper |-> NoFile]
    /\ lastOp = Op("init", NoDocument, << >>, "ok", << >>)
    /\ indexed = << >>
    /\ issued = << >>

\* Indexer.load; the ValueError of WordDictionary.load leaves the remaining
\* components unloaded
Load ==
    /\ phase = "constructed"
    /\ LET r == WordDictionaryLoad(wd, files.word_dict)
       IN  /\ dictionary' = r.wd.dictionary
           /\ current_id' = r.wd.current_id
           /\ IF r.error # "none"
              THEN /\ phase' = "crashed"
                   /\ UNCHANGED <<position_mapping, lexicon, link_out_counts,
                                  references_tracker, url_page_id_mapper,
                                  page_id_url_mapper>>
              ELSE /\ phase' = "open"
                   /\ position_mapping' = load_dictionary(files.forward_index_map)
                   /\ lexicon' = load_lexicon(lexicon, files.lexicon, 0)
                   /\ link_out_counts' = load_dictionary(files.link_out)
                   /\ references_tracker' = load_dictionary(files.reference_count)
                   /\ url_page_id_mapper' = load_dictionary(files.url_mapper)
                   /\ page_id_url_mapper' = load_dictionary(files.page_id_mapper)
           /\ lastOp' = Op("load", NoDocument, << >>, r.error, << >>)
    /\ UNCHANGED <<session, index_size, files, indexed, issued>>

\* the <<word, id>> pairs of the entries get_word_id appended to the
\* dictionary during a call
Registered(before, after) ==
    [i \in 1 .. Len(after) - Len(before) |->
        <<after[Len(before) + i][1], WordId(after[Len(before) + i][2])>>]

\* the orders in which the loop over set(data.anchors) may visit n anchors
Orders(n) ==
    { o \in [1..n -> 1..n] : \A i \in 1..n : \A j \in 1..n : i # j => o[i] # o[j] }

\* a loop that records a referrer only for a target url that is already mapped
RECURSIVE AddReferrersToKnownUrls(_, _, _, _, _)
AddReferrersToKnownUrls(tracker, anchors, order, i, page_id) ==
    IF i > Len(anchors) THEN tracker
    ELSE LET key == StrKey(anchors[order[i]].url)
             old == IF Has(tracker, key) THEN Get(tracker, key) ELSE << >>
         IN  AddReferrersToKnownUrls(
               IF Has(url_page_id_mapper, key)
               THEN Put(tracker, key, Append(old, page_id))
               ELSE tracker,
               anchors, order, i + 1, page_id)

\* the loop of Indexer.index over unique_anchors; every Anchor object is its
\* own element of the set
RECURSIVE AddReferrers(_, _, _, _, _)
AddReferrers(tracker, anchors, order, i, page_id) ==
    IF i > Len(anchors) THEN tracker
    ELSE LET key == StrKey(anchors[order[i]].url)
             old == IF Has(tracker, key) THEN Get(tracker, key) ELSE << >>
         IN  AddReferrers(Put(tracker, key, Append(old, page_id)),
                          anchors, order, i + 1, page_id)

\* Indexer.index of a document whose url is already mapped: returns at once
IndexKnown(data) ==
    /\ phase = "open"
    /\ Has(url_page_id_mapper, StrKey(data.url))
    /\ lastOp' = Op("index", data, << >>, "known", << >>)
    /\ UNCHANGED <<phase, session, memory, files, indexed, issued>>

\* Indexer.index of a document with a new url
IndexNew(data, order) ==
    /\ phase = "open"
    /\ Len(indexed) < MaxIndexCalls
    /\ ~Has(url_page_id_mapper, StrKey(data.url))
    /\ \E scan \in {ForwardScan(wd, data)} :
         \E written \in {write_forward_entry(fwd, files.forward_index,
                                              scan.entry)} :
           \E reverse \in {ReverseIndexIndex(files.reverse_indexes, lexicon,
                                             scan.entry)} :
             /\ dictionary' = scan.wd.dictionary
             /\ current_id' = scan.wd.current_id
             /\ position_mapping' = written.fwd.position_mapping
             /\ index_size' = written.fwd.index_size
             /\ lexicon' = reverse.lexicon
             /\ files' = [files EXCEPT !.forward_index = written.file,
                                       !.reverse_indexes = reverse.files]
             /\ url_page_id_mapper' =
                   Put(url_page_id_mapper, StrKey(data.url), scan.entry.page_id)
             /\ page_id_url_mapper' =
                   Put(page_id_url_mapper, IntKey(scan.entry.page_id), data.url)
             /\ link_out_counts' =
                   Put(link_out_counts, IntKey(scan.entry.page_id),
                       Len(data.anchors))
             /\ references_tracker' =
                   AddReferrers(references_tracker, data.anchors, order, 1,
                                scan.entry.page_id)
             /\ indexed' = Append(indexed,
                                   [data |-> data, session |-> session,
                                    entry |-> scan.entry])
    /\ lastOp' = Op("index", data, << >>, "ok", << >>)
    /\ issued' = issued \o Registered(dictionary, dictionary')
    /\ UNCHANGED <<phase, session>>

Index ==
    \E data \in PageDocuments :
        \/ IndexKnown(data)
        \/ \E order \in Orders(Len(data.anchors)) : IndexNew(data, order)

\* a search that also reads the segment of the keyword with
\* _load_reverse_entries, which creates the segment file when it is missing
SearchReadingSegment ==
    \E keywords \in Keywords :
        /\ phase = "open"
        /\ \E r \in {get_word_id(wd, keywords)} :
             \E found \in {SearchPages(links, lexicon, r.word_id)} :
               /\ dictionary' = r.wd.dictionary
               /\ current_id' = r.wd.current_id
               /\ lastOp' = Op("search", NoDocument, keywords, found.error,
                               found.sorted_pages)
               /\ files' = [files EXCEPT !.reverse_indexes =
                               IF Has(files.reverse_indexes, StrKey(r.word_id))
                               THEN files.reverse_indexes
                               ELSE Put(files.reverse_indexes,
                                        StrKey(r.word_id), << >>)]
        /\ UNCHANGED <<phase, session, position_mapping, index_size, lexicon,
                       link_out_counts, references_tracker, url_page_id_mapper,
                       page_id_url_mapper, indexed>>
        /\ issued' = issued \o Registered(dictionary, dictionary')

\* Indexer.search_by_keywords
Search ==
    \E keywords \in Keywords :
        /\ phase = "open"
        /\ \E r \in {get_word_id(wd, keywords)} :
             \E found \in {SearchPages(links, lexicon, r.word_id)} :
               /\ dictionary' = r.wd.dictionary
               /\ current_id' = r.wd.current_id
               /\ lastOp' = Op("search", NoDocument, keywords, found.error,
                               found.sorted_pages)
        /\ UNCHANGED <<phase, session, position_mapping, index_size, lexicon,
                       link_out_counts, references_tracker, url_page_id_mapper,
                       page_id_url_mapper, files, indexed>>
        /\ issued' = issued \o Registered(dictionary, dictionary')

\* a close that does not dump url_page_id_mapper either
CloseWithoutUrlMapper ==
    /\ phase = "open"
    /\ phase' = "closed"
    /\ files' = [files EXCEPT
                   !.word_dict = WordDictionaryClose(wd),
                   !.forward_index_map = dump_dictionary(position_mapping),
                   !.lexicon = write_lexicon(files.lexicon, lexicon),
                   !.link_out = dump_dictionary(link_out_counts),
                   !.reference_count = dump_dictionary(references_tracker)]
    /\ lastOp' = Op("close", NoDocument, << >>, "ok", << >>)
    /\ UNCHANGED <<session, memory, indexed, issued>>

\* Indexer.close: page_id_url_mapper is not dumped
Close ==
    /\ phase = "open"
    /\ phase' = "closed"
    /\ files' = [files EXCEPT
                   !.word_dict = WordDictionaryClose(wd),
                   !.forward_index_map = dump_dictionary(position_mapping),
                   !.lexicon = write_lexicon(files.lexicon, lexicon),
                   !.link_out = dump_dictionary(link_out_counts),
                   !.reference_count = dump_dictionary(references_tracker),
                   !.url_mapper = dump_dictionary(url_page_id_mapper)]
    /\ lastOp' = Op("close", NoDocument, << >>, "ok", << >>)
    /\ UNCHANGED <<session, memory, indexed, issued>>

\* a new Indexer over the same directory, after the previous one was closed
Reopen ==
    /\ phase = "closed"
    /\ session < MaxSessions
    /\ phase' = "constructed"
    /\ session' = session + 1
    /\ dictionary' = EmptyDict
    /\ current_id' = 0
    /\ position_mapping' = EmptyDict
    /\ index_size' = Len(files.forward_index)
    /\ lexicon' = EmptyDict
    /\ link_out_counts' = EmptyDict
    /\ references_tracker' = EmptyDict
    /\ url_page_id_mapper' = EmptyDict
    /\ page_id_url_mapper' = EmptyDict
    /\ lastOp' = Op("new", NoDocument, << >>, "ok", << >>)
    /\ UNCHANGED <<files, indexed, issued>>

Next == Load \/ Index \/ Search \/ Close \/ Reopen

Spec == Init /\ [][Next]_vars

(***************************************************************************)
(* Indexer.index when a file write raises.  The code has no try block:     *)
(* the exception leaves index() at the write, and everything done before   *)
(* it stays.  The write of the forward file (ForwardIndex, line 240) or    *)
(* the write of the segment of the (n+1)-th word (ReverseIndex, line 376)  *)
(* may raise; n = -1 stands for the write of the forward file.  Nothing   *)
(* in the repository catches the exception (server.py,                     *)
(* handle_crawled_data), so the Indexer is not used after it.              *)
(***************************************************************************)
IndexFails(data) ==
    /\ phase = "open"
    /\ phase' = "failed"
    /\ Len(indexed) < MaxIndexCalls
    /\ ~Has(url_page_id_mapper, StrKey(data.url))
    /\ \E scan \in {ForwardScan(wd, data)} :
         \E written \in {write_forward_entry(fwd, files.forward_index,
                                              scan.entry)} :
           \E reverse_entries \in {convert_to_reverse_indexes(scan.entry, 1)} :
           \E n \in -1 .. Len(reverse_entries) - 1 :
             /\ dictionary' = scan.wd.dictionary
             /\ current_id' = scan.wd.current_id
             /\ IF n = -1
                THEN UNCHANGED <<position_mapping, index_size, files>>
                ELSE /\ position_mapping' = written.fwd.position_mapping
                     /\ index_size' = written.fwd.index_size
                     /\ files' = [files EXCEPT
                          !.forward_index = written.file,
                          !.reverse_indexes =
                              WriteSegments(files.reverse_indexes,
                                            reverse_entries, n)]
    /\ lastOp' = Op("index", data, << >>, "IOError", << >>)
    /\ issued' = issued \o Registered(dictionary, dictionary')
    /\ UNCHANGED <<session, lexicon, link_out_counts, references_tracker,
                   url_page_id_mapper, page_id_url_mapper, indexed>>

IndexFault ==
    \E data \in PageDocuments : IndexFails(data)

\* the indexing side of the Indexer, with write faults
NextFault == Load \/ Index \/ IndexFault \/ Close \/ Reopen

SpecFault == Init /\ [][NextFault]_vars

(***************************************************************************)
(* A WordDictionary used on its own, as TestWordDictionary does: an object *)
(* is constructed, loaded, asked for word ids and closed, and a new object *)
(* is constructed over the same file.  Only the dictionary, its file and   *)
(* the record of the calls change.                                         *)
(***************************************************************************)
\* the tokens get_word_id is called with
DictionaryTokens ==
    { <<"p">>, <<"P">>, <<"'", "p", "'">>, <<"p", ",">>, <<".", "p">>,
      <<"p", "\n">>, <<"(", "(", "p", ")", ")">>, << >>, <<"\n">>, <<".">>,
      <<"a", ":", "b">>, <<"p", "\n", "t">> }

\* WordDictionary.load
DictionaryLoad ==
    /\ phase = "constructed"
    /\ \E r \in {WordDictionaryLoad(wd, files.word_dict)} :
         /\ dictionary' = r.wd.dictionary
         /\ current_id' = r.wd.current_id
         /\ phase' = IF r.error # "none" THEN "crashed" ELSE "open"
         /\ lastOp' = Op("load", NoDocument, << >>, r.error, << >>)
    /\ UNCHANGED <<session, position_mapping, index_size, lexicon,
                   link_out_counts, references_tracker, url_page_id_mapper,
                   page_id_url_mapper, files, indexed, issued>>

\* WordDictionary.get_word_id (add_word calls it and drops the id)
DictionaryGetWordId ==
    \E word \in DictionaryTokens :
        /\ phase = "open"
        /\ Has(dictionary, Normalize(word)) \/ Len(issued) < MaxWords
        /\ \E r \in {get_word_id(wd, word)} :
             /\ dictionary' = r.wd.dictionary
             /\ current_id' = r.wd.current_id
             /\ lastOp' = Op("get_word_id", NoDocument, word, "ok",
                             <<r.word_id>>)
        /\ issued' = issued \o Registered(dictionary, dictionary')
        /\ UNCHANGED <<phase, session, position_mapping, index_size, lexicon,
                       link_out_counts, references_tracker, url_page_id_mapper,
                       page_id_url_mapper, files, indexed>>

\* WordDictionary.close
DictionaryClose ==
    /\ phase = "open"
    /\ phase' = "closed"
    /\ files' = [files EXCEPT !.word_dict = WordDictionaryClose(wd)]
    /\ lastOp' = Op("close", NoDocument, << >>, "ok", << >>)
    /\ UNCHANGED <<session, memory, indexed, issued>>

\* a new WordDictionary over the same path
DictionaryReopen ==
    /\ phase = "closed"
    /\ session < MaxSessions
    /\ phase' = "constructed"
    /\ session' = session + 1
    /\ dictionary' = NewWordDictionary.dictionary
    /\ current_id' = NewWordDictionary.current_id
    /\ lastOp' = Op("new", NoDocument, << >>, "ok", << >>)
    /\ UNCHANGED <<position_mapping, index_size, lexicon, link_out_counts,
                   references_tracker, url_page_id_mapper, page_id_url_mapper,
                   files, indexed, issued>>

NextDictionary ==
    DictionaryLoad \/ DictionaryGetWordId \/ DictionaryClose \/ DictionaryReopen

SpecDictionary == Init /\ [][NextDictionary]_vars

(***************************************************************************)
(* The record codecs byte by byte, and file_binary_search.  struct packs   *)
(* an unsigned field of w bytes most significant byte first ("!"), without *)
(* padding; bytes are the integers 0 .. 255 (the values of the model stay  *)
(* below 2^31).                                                            *)
(***************************************************************************)
\* struct.pack of one unsigned field of w bytes
RECURSIVE BigEndian(_, _)
BigEndian(n, w) ==
    IF w = 0 THEN << >> ELSE BigEndian(n \div 256, w - 1) \o <<n % 256>>

\* struct.unpack of one unsigned field
RECURSIVE FromBigEndian(_, _)
FromBigEndian(bytes, acc) ==
    IF bytes = << >> THEN acc
    ELSE FromBigEndian(Tail(bytes), acc * 256 + Head(bytes))

\* data[:n] and data[n:]
Take(data, n) == SubSeq(data, 1, IF n < Len(data) THEN n ELSE Len(data))

Drop(data, n) == SubSeq(data, n + 1, Len(data))

\* a pack that writes the position before the section
HitPackBytesPositionFirst(hit) ==
    BigEndian(hit[1], 1) \o BigEndian(hit[3], 4) \o BigEndian(hit[2], 4)

\* Hit.pack: "!BII"
HitPackBytes(hit) ==
    BigEndian(hit[1], 1) \o BigEndian(hit[2], 4) \o BigEndian(hit[3], 4)

\* Hit.unpack: "!BII"
HitUnpackBytes(data) ==
    Hit(FromBigEndian(SubSeq(data, 1, 1), 0),
        FromBigEndian(SubSeq(data, 2, 5), 0),
        FromBigEndian(SubSeq(data, 6, 9), 0))

\* the loop of ForwardIndexEntry.pack over the hits of one word
RECURSIVE HitListBytes(_, _)
HitListBytes(hit_list, i) ==
    IF i > Len(hit_list) THEN << >>
    ELSE HitPackBytes(hit_list[i]) \o HitListBytes(hit_list, i + 1)

\* the loop of ForwardIndexEntry.pack over the words: "!IH", then the hits
RECURSIVE WordEntryBytes(_, _)
WordEntryBytes(hits, i) ==
    IF i > Len(hits) THEN << >>
    ELSE BigEndian(hits[i][1][2], 4) \o BigEndian(Len(hits[i][2]), 2)
         \o HitListBytes(hits[i][2], 1) \o WordEntryBytes(hits, i + 1)

\* ForwardIndexEntry.pack: "!II", then the words
ForwardIndexEntryPackBytes(entry) ==
    BigEndian(entry.page_id, 4) \o BigEndian(Len(entry.hits), 4)
    \o WordEntryBytes(entry.hits, 1)

\* the inner loop of ForwardIndexEntry.unpack: hit_count hits of 9 bytes;
\* returns the hits and the data left
RECURSIVE UnpackHitBytes(_, _, _)
UnpackHitBytes(data, hit_count, hit_list) ==
    IF hit_count = 0 THEN [hit_list |-> hit_list, data |-> data]
    ELSE UnpackHitBytes(Drop(data, 9), hit_count - 1,
                        Append(hit_list, HitUnpackBytes(Take(data, 9))))

\* hits[word_id] = hit_list, with the hits read, and the data left
WordUnpacked(hits, word_id, read) ==
    [hits |-> Put(hits, IntKey(word_id), read.hit_list), data |-> read.data]

\* the outer loop of ForwardIndexEntry.unpack
RECURSIVE UnpackWordBytes(_, _, _)
UnpackWordBytes(data, word_counts, hits) ==
    IF word_counts = 0 THEN hits
    ELSE \* word_id, hit_count = struct.unpack("!IH", data[:6])
         LET next == WordUnpacked(hits, FromBigEndian(SubSeq(data, 1, 4), 0),
                                  UnpackHitBytes(Drop(data, 6),
                                      FromBigEndian(SubSeq(data, 5, 6), 0),
                                      << >>))
         IN  UnpackWordBytes(next.data, word_counts - 1, next.hits)

\* ForwardIndexEntry.unpack
ForwardIndexEntryUnpackBytes(data) ==
    [page_id |-> FromBigEndian(SubSeq(data, 1, 4), 0),
     hits |-> UnpackWordBytes(Drop(data, 8),
                              FromBigEndian(SubSeq(data, 5, 8), 0), EmptyDict)]

\* TestFileBinarySearch.alphebet_comparator: the order of bytes objects
RECURSIVE alphebet_comparator(_, _)
alphebet_comparator(target, current) ==
    IF target = << >> /\ current = << >> THEN 0
    ELSE IF target = << >> THEN -1
    ELSE IF current = << >> THEN 1
    ELSE IF Head(target) > Head(current) THEN 1
    ELSE IF Head(target) < Head(current) THEN -1
    ELSE alphebet_comparator(Tail(target), Tail(current))

\* stands for None
None == << -1 >>

\* file.seek(position, 0); file.read(entry_size)
ReadEntry(file, position, entry_size) ==
    SubSeq(file, position + 1,
           IF position + entry_size < Len(file) THEN position + entry_size
           ELSE Len(file))

\* a search that seeks to start + middle_count
RECURSIVE FileBinarySearchByCount(_, _, _, _, _)
FileBinarySearchByCount(file, target, entry_size, start, end) ==
    IF (end - start) % entry_size # 0
    THEN [error |-> "ValueError", found |-> FALSE, entry |-> None,
          position |-> start]
    ELSE IF end - start = 0
    THEN [error |-> "none", found |-> FALSE, entry |-> None, position |-> start]
    ELSE LET seek_position == start + ((end - start) \div entry_size) \div 2
             comparison_result ==
                 alphebet_comparator(target,
                                     ReadEntry(file, seek_position, entry_size))
         IN  IF comparison_result = 0
             THEN [error |-> "none", found |-> TRUE,
                   entry |-> ReadEntry(file, seek_position, entry_size),
                   position |-> seek_position]
             ELSE IF comparison_result > 0
             THEN FileBinarySearchByCount(file, target, entry_size,
                                          seek_position + entry_size, end)
             ELSE FileBinarySearchByCount(file, target, entry_size, start,
                                          seek_position)

\* file_binary_search with the comparator of the tests; the result is
\* (found, entry, position), or the ValueError of a range that is no
\* multiple of entry_size
RECURSIVE file_binary_search(_, _, _, _, _)
file_binary_search(file, target, entry_size, start, end) ==
    IF (end - start) % entry_size # 0
    THEN [error |-> "ValueError", found |-> FALSE, entry |-> None,
          position |-> start]
    ELSE IF end - start = 0
    THEN [error |-> "none", found |-> FALSE, entry |-> None, position |-> start]
    ELSE LET seek_position ==
                 start + entry_size * (((end - start) \div entry_size) \div 2)
             comparison_result ==
                 alphebet_comparator(target,
                                     ReadEntry(file, seek_position, entry_size))
         IN  IF comparison_result = 0
             THEN [error |-> "none", found |-> TRUE,
                   entry |-> ReadEntry(file, seek_position, entry_size),
                   position |-> seek_position]
             ELSE IF comparison_result > 0
             THEN file_binary_search(file, target, entry_size,
                                     seek_position + entry_size, end)
             ELSE file_binary_search(file, target, entry_size, start,
                                     seek_position)

(***************************************************************************)
(* The codecs and the search called on their own, as the unit tests do:    *)
(* an argument is drawn, and the call is made on it.  lastOp.keyword holds *)
(* the argument and lastOp.result the value returned.                      *)
(***************************************************************************)
SeqsUpTo(S, n) == UNION { [1 .. k -> S] : k \in 0 .. n }

\* hits with small and with multi-byte sections and positions
HitValues ==
    { Hit(TEXT_HIT, 0, 0), Hit(REFERENCE_HIT, 256, 65537),
      Hit(ANCHOR_HIT, 16777216, 255) }

WordIdValues == {1, 256}

PageIdValues == {1, 65536}

\* the dicts word id -> hit list over WordIdValues, in every insertion order
HitDicts ==
    { d \in SeqsUpTo({ <<IntKey(w), l>> : w \in WordIdValues,
                                           l \in SeqsUpTo(HitValues, MaxHitCount) },
                     Cardinality(WordIdValues)) :
        \A i \in DOMAIN d : \A j \in DOMAIN d : i # j => d[i][1] # d[j][1] }

ForwardIndexEntries ==
    { [page_id |-> p, hits |-> d] : p \in PageIdValues, d \in HitDicts }

ByteValues == {97, 98, 99}

SearchArguments ==
    { [file |-> f, target |-> t, entry_size |-> n, start |-> a, end |-> b] :
        f \in SeqsUpTo(ByteValues, MaxFileLen), n \in {1, 2},
        t \in SeqsUpTo(ByteValues, 2), a \in 0 .. MaxFileLen,
        b \in 0 .. MaxFileLen }

Searches ==
    { x \in SearchArguments :
        /\ Len(x.target) = x.entry_size
        /\ x.start <= x.end /\ x.end <= Len(x.file) }

Drawn(op, argument) == Op(op, NoDocument, argument, "drawn", << >>)

InitCalls ==
    /\ phase = "constructed"
    /\ session = 1
    /\ dictionary = EmptyDict
    /\ current_id = 0
    /\ position_mapping = EmptyDict
    /\ index_size = 0
    /\ lexicon = EmptyDict
    /\ link_out_counts = EmptyDict
    /\ references_tracker = EmptyDict
    /\ url_page_id_mapper = EmptyDict
    /\ page_id_url_mapper = EmptyDict
    /\ files = [word_dict |-> << >>, forward_index |-> << >>,
                forward_index_map |-> NoFile, reverse_indexes |-> EmptyDict,
                lexicon |-> << >>, link_out |-> NoFile,
                reference_count |-> NoFile, url_mapper |-> NoFile,
                page_id_mapper |-> NoFile]
    /\ lastOp \in { Drawn("Hit", h) : h \in HitValues }
                  \cup { Drawn("ForwardIndexEntry", e) : e \in ForwardIndexEntries }
                  \cup { Drawn("file_binary_search", x) : x \in Searches }
    /\ indexed = << >>
    /\ issued = << >>

Returned(value) == [lastOp EXCEPT !.status = "ok", !.result = value]

\* Hit.unpack(h.pack())
CallHitCodec ==
    /\ lastOp.op = "Hit" /\ lastOp.status = "drawn"
    /\ lastOp' = Returned(HitUnpackBytes(HitPackBytes(lastOp.keyword)))
    /\ UNCHANGED <<phase, session, memory, files, indexed, issued>>

\* ForwardIndexEntry.unpack(e.pack())
CallForwardIndexEntryCodec ==
    /\ lastOp.op = "ForwardIndexEntry" /\ lastOp.status = "drawn"
    /\ lastOp' = Returned(ForwardIndexEntryUnpackBytes(
                            ForwardIndexEntryPackBytes(lastOp.keyword)))
    /\ UNCHANGED <<phase, session, memory, files, indexed, issued>>

\* file_binary_search(file, target, comparator, entry_size, start, end)
CallFileBinarySearch ==
    /\ lastOp.op = "file_binary_search" /\ lastOp.status = "drawn"
    /\ lastOp' = Returned(file_binary_search(lastOp.keyword.file,
                              lastOp.keyword.target, lastOp.keyword.entry_size,
                              lastOp.keyword.start, lastOp.keyword.end))
    /\ UNCHANGED <<phase, session, memory, files, indexed, issued>>

NextCalls == CallHitCodec \/ CallForwardIndexEntryCodec \/ CallFileBinarySearch

SpecCalls == InitCalls /\ [][NextCalls]_vars

(***************************************************************************)
(* Properties.                                                             *)
(***************************************************************************)
IndexedUrls == { indexed[i].data.url : i \in DOMAIN indexed }

Count(seq, x) == Cardinality({ i \in DOMAIN seq : seq[i] = x })

Range(seq) == { seq[i] : i \in DOMAIN seq }

\* what search_by_keywords(k) computes in the current state
SearchResult(k) == SearchPages(links, lexicon, get_word_id(wd, k).word_id)

\* the words of a document, as ForwardIndex.index scans them
Tokens(data) ==
    UNION { Range(Split(section)) :
              section \in {data.title, data.url} \cup Range(data.headers)
                          \cup Range(data.texts)
                          \cup Range(AnchorTexts(data.anchors)) }

\* C1: index(doc) of a document whose url was indexed before, in this
\* session or in an earlier one, changes neither the in-memory state (word
\* dictionary, forward offset map, lexicon, outbound counts, referrers, url
\* maps) nor any file
C1_IndexOfKnownUrlIsNoOp ==
    [][(lastOp'.op = "index" /\ lastOp'.doc.url \in IndexedUrls)
        => UNCHANGED <<memory, files>>]_vars

\* an index call for a url indexed in an earlier session, with a document
\* that differs from the one indexed then
C1_Witness ==
    /\ lastOp.op = "index"
    /\ \E i \in DOMAIN indexed :
          /\ indexed[i].data.url = lastOp.doc.url
          /\ indexed[i].data # lastOp.doc
          /\ indexed[i].session < session

\* C2: for every word id, get_page_ids is sorted ascending and holds no page
\* id twice
C2_PageIdsSortedWithoutDuplicates ==
    \A w \in DOMAIN lexicon :
        LET pages == get_page_ids(lexicon, lexicon[w][1][2])
        IN  \A j \in DOMAIN pages : \A k \in DOMAIN pages :
                j < k => pages[j] < pages[k]

\* C3: after index(doc), close() and load() on a new object, get_entry with
\* the integer doc.doc_id returns the entry index(doc) produced (for the
\* last document indexed under that id)
C3_EntrySurvivesReopen ==
    \A i \in DOMAIN indexed :
        ( /\ phase = "open"
          /\ indexed[i].session < session
          /\ \A j \in DOMAIN indexed :
                j > i => indexed[j].data.doc_id # indexed[i].data.doc_id )
        => get_entry(fwd, files.forward_index, IntKey(indexed[i].data.doc_id))
             = indexed[i].entry

\* C4: after any number of close/reopen cycles, load() on the new Indexer
\* succeeds and, for every document indexed before and every word k of it,
\* search_by_keywords(k) returns a sequence holding the document's page id
\* exactly once
C4_SearchableAfterRestart ==
    (lastOp.op = "load" /\ session >= 2) =>
        /\ phase = "open"
        /\ \A i \in DOMAIN indexed :
              \A k \in Tokens(indexed[i].data) :
                 /\ SearchResult(k).error = "none"
                 /\ Count(SearchResult(k).sorted_pages,
                          indexed[i].data.doc_id) = 1

RankOf(page_id) == page_rank(links, page_id).value

\* C5: a search that returns holds exactly the page ids of get_page_ids of
\* the keyword's id, each once, in descending rank, and in ascending page
\* id among equal ranks
C5_SearchOrder ==
    (lastOp.op = "search" /\ lastOp.status = "none") =>
        LET res == lastOp.result
            ids == get_page_ids(lexicon, get_word_id(wd, lastOp.keyword).word_id)
        IN  /\ Range(res) = Range(ids)
            /\ \A i \in DOMAIN res : \A j \in DOMAIN res :
                 i < j =>
                   /\ res[i] # res[j]
                   /\ ~FracLess(RankOf(res[i]), RankOf(res[j]))
                   /\ ~FracLess(RankOf(res[j]), RankOf(res[i]))
                        => res[i] < res[j]

\* a search whose result holds two pages of equal rank, and a page id placed
\* before a smaller one because of its higher rank
C5_Witness ==
    /\ lastOp.op = "search"
    /\ lastOp.status = "none"
    /\ \E i \in DOMAIN lastOp.result : \E j \in DOMAIN lastOp.result :
          /\ i < j
          /\ ~FracLess(RankOf(lastOp.result[i]), RankOf(lastOp.result[j]))
          /\ ~FracLess(RankOf(lastOp.result[j]), RankOf(lastOp.result[i]))
    /\ \E i \in DOMAIN lastOp.result : \E j \in DOMAIN lastOp.result :
          i < j /\ lastOp.result[i] > lastOp.result[j]

ThreePagesIndexed ==
    /\ Len(indexed) = 3
    /\ { indexed[i].data : i \in DOMAIN indexed } = {Page1, Page2, Page3}
    /\ \A i \in DOMAIN indexed : indexed[i].session = session

\* C6: with Page1, Page2 and Page3 indexed in this session, in any order,
\* the search of their common keyword returns Page1's id, Page2's, Page3's
C6_ThreePagesRanked ==
    (lastOp.op = "search" /\ lastOp.keyword = <<"P">> /\ ThreePagesIndexed) =>
        /\ lastOp.status = "none"
        /\ lastOp.result = <<Page1.doc_id, Page2.doc_id, Page3.doc_id>>

\* the search after Page3, Page2, Page1 were indexed in that order: every
\* page after its referrers
C6_Witness ==
    /\ lastOp.op = "search"
    /\ lastOp.keyword = <<"P">>
    /\ ThreePagesIndexed
    /\ indexed[1].data = Page3
    /\ indexed[2].data = Page2
    /\ indexed[3].data = Page1

\* C7: the rank computation of a search terminates on every link graph: it
\* never runs into the recursion limit
C7_RankTerminates ==
    lastOp.op = "search" => lastOp.status # "RecursionError"

\* C8: when no indexed page has an anchor, the rank of every page id is
\* 1 - d
C8_NoEdgesRank ==
    (phase = "open" /\ \A i \in DOMAIN indexed : indexed[i].data.anchors = << >>)
    => \A p \in DocIds :
         LET r == page_rank(links, p)
         IN  /\ r.error = "none"
             /\ r.value[1] * DampenerDen
                  = (DampenerDen - DampenerNum) * r.value[2]

\* a search over two pages without anchors, indexed in this session
C8_Witness ==
    /\ lastOp.op = "search"
    /\ Len(lastOp.result) = 2
    /\ Len(indexed) = 2
    /\ \A i \in DOMAIN indexed :
          indexed[i].data.anchors = << >> /\ indexed[i].session = session

\* C9: an index call that fails partway leaves the in-memory state as it
\* was before the call
C9_FailedIndexRollsBack ==
    [][lastOp'.status = "IOError" => UNCHANGED memory]_vars

IsAlnum(c) == c \notin (Punctuation \cup Whitespace)

Alnums(s) == { i \in DOMAIN s : IsAlnum(s[i]) }

StripRuns(s) ==
    IF Alnums(s) = {} THEN s
    ELSE SubSeq(s, CHOOSE i \in Alnums(s) : \A j \in Alnums(s) : i <= j,
                   CHOOSE i \in Alnums(s) : \A j \in Alnums(s) : j <= i)

NormalizedAsSpecified(word) == Lower(StripRuns(RStrip(word)))

\* C11: two tokens that are equal once trailing whitespace and enclosing
\* punctuation are removed and case is ignored get the same id from
\* get_word_id, and the second call allocates no id (stated for two calls
\* that follow each other)
C11_EqualTokensSameId ==
    [][(/\ lastOp.op = "get_word_id"
        /\ lastOp'.op = "get_word_id"
        /\ NormalizedAsSpecified(lastOp.keyword)
             = NormalizedAsSpecified(lastOp'.keyword))
       => (lastOp'.result = lastOp.result /\ current_id' = current_id)]_vars

\* C12: get_word_id of an empty or whitespace-only token registers no entry
\* and leaves the next id as it was
C12_EmptyTokenAllocatesNothing ==
    [][(lastOp'.op = "get_word_id" /\ RStrip(lastOp'.keyword) = << >>)
       => (dictionary' = dictionary /\ current_id' = current_id)]_vars

\* C13: the word get_word_id looks up and registers is the token without
\* its whole leading and trailing runs of non-alphanumeric characters; a
\* token made of such characters only is kept as it is
C13_WholeRunsStripped ==
    lastOp.op = "get_word_id"
    => /\ Has(dictionary, NormalizedAsSpecified(lastOp.keyword))
       /\ WordId(Get(dictionary, NormalizedAsSpecified(lastOp.keyword)))
            = lastOp.result[1]

\* C14: after close() and load() on a new WordDictionary every word
\* registered before the close has the id it had, and looking it up
\* allocates nothing
C14_DictionaryRoundTrip ==
    (lastOp.op = "load" /\ session = 2)
    => /\ phase = "open"
       /\ \A i \in DOMAIN issued : \A word \in DictionaryTokens :
            Normalize(word) = issued[i][1]
            => get_word_id(wd, word) = [wd |-> wd, word_id |-> issued[i][2]]

(***************************************************************************)
(* The hits of a document as the scanning rule words them: the sections in *)
(* scan order (the title, the headers, the texts, the anchor texts, the    *)
(* url), each split on one space, one hit per token.                       *)
(***************************************************************************)
Numbered(sections, kind) ==
    [i \in DOMAIN sections |-> <<kind, i - 1, sections[i]>>]

SectionsInScanOrder(data) ==
    Numbered(<<data.title>>, TITLE_HIT) \o Numbered(data.headers, HEADER_HIT)
    \o Numbered(data.texts, TEXT_HIT)
    \o Numbered(AnchorTexts(data.anchors), ANCHOR_HIT)
    \o Numbered(<<data.url>>, URL_HIT)

\* the <<token, hit>> pairs of one numbered section, by position
TokenHits(kind, section_index, words) ==
    [p \in DOMAIN words |-> <<words[p], Hit(kind, section_index, p - 1)>>]

RECURSIVE TokenHitsFrom(_, _)
TokenHitsFrom(sections, i) ==
    IF i > Len(sections) THEN << >>
    ELSE TokenHits(sections[i][1], sections[i][2], Split(sections[i][3]))
         \o TokenHitsFrom(sections, i + 1)

ExpectedHits(data) == TokenHitsFrom(SectionsInScanOrder(data), 1)

\* the id the word dictionary of the current state gives a token
IdOfToken(token) == IntKey(get_word_id(wd, token).word_id)

\* the hits of the tokens with the given id, in the order of the list
RECURSIVE HitsOfId(_, _, _)
HitsOfId(token_hits, key, i) ==
    IF i > Len(token_hits) THEN << >>
    ELSE (IF IdOfToken(token_hits[i][1]) = key THEN <<token_hits[i][2]>>
          ELSE << >>)
         \o HitsOfId(token_hits, key, i + 1)

\* two dicts with the same keys and the same value under every key
SameDict(a, b) == Keys(a) = Keys(b) /\ \A k \in Keys(a) : Get(a, k) = Get(b, k)

EntryAsSpecified(entry, data, expected) ==
    /\ entry.page_id = data.doc_id
    /\ Keys(entry.hits) = { IdOfToken(expected[i][1]) : i \in DOMAIN expected }
    /\ \A k \in Keys(entry.hits) : Get(entry.hits, k) = HitsOfId(expected, k, 1)

\* C15: the entry index(doc) produces holds exactly one hit per token of
\* the document, under the token's word id, with the kind and the index of
\* its section and its position in it; the hits of one word are in scan
\* order; get_entry(doc.doc_id) right after the call returns that entry
C15_OneHitPerTokenInScanOrder ==
    (lastOp.op = "index" /\ lastOp.status = "ok")
    => /\ indexed[Len(indexed)].data = lastOp.doc
       /\ EntryAsSpecified(indexed[Len(indexed)].entry, lastOp.doc,
                           ExpectedHits(lastOp.doc))
       /\ get_entry(fwd, files.forward_index, IntKey(lastOp.doc.doc_id)).page_id
            = lastOp.doc.doc_id
       /\ SameDict(get_entry(fwd, files.forward_index,
                             IntKey(lastOp.doc.doc_id)).hits,
                   indexed[Len(indexed)].entry.hits)

\* a document was indexed one of whose words has hits of three kinds, two
\* of them in one section, under a doc_id that an earlier document had
C15_Witness ==
    /\ lastOp.op = "index" /\ lastOp.status = "ok"
    /\ \E k \in Keys(indexed[Len(indexed)].entry.hits) :
          LET hit_list == Get(indexed[Len(indexed)].entry.hits, k)
          IN  /\ Cardinality({ hit_list[i][1] : i \in DOMAIN hit_list }) >= 3
              /\ \E i \in DOMAIN hit_list : \E j \in DOMAIN hit_list :
                    /\ i < j
                    /\ hit_list[i][1] = hit_list[j][1]
                    /\ hit_list[i][2] = hit_list[j][2]
    /\ \E i \in 1 .. Len(indexed) - 1 :
          indexed[i].data.doc_id = lastOp.doc.doc_id

\* the reverse entries of word id w that the forward entries indexed so far
\* call for, in the order of the index calls
RECURSIVE EntriesOfWord(_, _)
EntriesOfWord(w, i) ==
    IF i > Len(indexed) THEN << >>
    ELSE (IF Has(indexed[i].entry.hits, IntKey(w))
          THEN << [word_id |-> w, page_id |-> indexed[i].entry.page_id,
                   hits |-> Get(indexed[i].entry.hits, IntKey(w))] >>
          ELSE << >>)
         \o EntriesOfWord(w, i + 1)

\* C16: for every word id w, get_entries(w) is the list, in the order of
\* the index calls, of one ReverseIndexEntry per indexed forward entry that
\* holds w, with word id w, the page id of the forward entry and its hit
\* list for w; the frames of a segment file are read back as written
C16_EntriesInInsertionOrder ==
    \A w \in 0 .. Len(issued) + 1 :
        get_entries(files.reverse_indexes, w) = EntriesOfWord(w, 1)

\* the segment of a word holds records of different lengths, written in
\* different sessions, and a record of another page between them
C16_Witness ==
    \E w \in 1 .. Len(issued) :
        LET entries == get_entries(files.reverse_indexes, w)
        IN  /\ Len(entries) = 3
            /\ Len(entries[1].hits) < Len(entries[2].hits)
            /\ Len(entries[3].hits) < Len(entries[2].hits)
            /\ entries[1].page_id # entries[2].page_id
            /\ indexed[1].session < indexed[3].session

\* C17: for a ForwardIndexEntry e within the field widths,
\* ForwardIndexEntry.unpack(e.pack()) has the page id of e, the word ids of
\* e and under each word id the hits of e in the same order; and
\* Hit.unpack(h.pack()) = h for a Hit h
C17_CodecRoundTrip ==
    /\ (lastOp.op = "ForwardIndexEntry" /\ lastOp.status = "ok")
       => /\ lastOp.result.page_id = lastOp.keyword.page_id
          /\ SameDict(lastOp.result.hits, lastOp.keyword.hits)
    /\ (lastOp.op = "Hit" /\ lastOp.status = "ok")
       => lastOp.result = lastOp.keyword

\* an entry with a multi-byte page id and two words, one of them with two
\* different hits, went through pack and unpack
C17_Witness ==
    /\ lastOp.op = "ForwardIndexEntry" /\ lastOp.status = "ok"
    /\ lastOp.keyword.page_id > 255
    /\ Len(lastOp.keyword.hits) = 2
    /\ \E i \in DOMAIN lastOp.keyword.hits :
          /\ Len(lastOp.keyword.hits[i][2]) >= 2
          /\ lastOp.keyword.hits[i][2][1] # lastOp.keyword.hits[i][2][2]
          /\ lastOp.keyword.hits[i][1][2] > 255

\* the entries of the range [start, end) of a search, by offset
RangeOffsets(x) ==
    { x.start + k * x.entry_size :
        k \in 0 .. ((x.end - x.start) \div x.entry_size) - 1 }

EntryAt(x, offset) == SubSeq(x.file, offset + 1, offset + x.entry_size)

\* a < b for two entries of the same size
BytesLess(a, b) ==
    \E i \in DOMAIN a : a[i] < b[i] /\ \A j \in 1 .. i - 1 : a[j] = b[j]

SortedRange(x) ==
    \A o1 \in RangeOffsets(x) : \A o2 \in RangeOffsets(x) :
        o1 < o2 => ~BytesLess(EntryAt(x, o2), EntryAt(x, o1))

SearchAsSpecified(x, r) ==
    /\ r.error = "none"
    /\ IF \E o \in RangeOffsets(x) : EntryAt(x, o) = x.target
       THEN /\ r.found
            /\ r.entry = x.target
            /\ r.position \in RangeOffsets(x)
            /\ EntryAt(x, r.position) = x.target
       ELSE /\ ~r.found
            /\ r.entry = None
            /\ r.position = x.start + x.entry_size *
                   Cardinality({ o \in RangeOffsets(x) :
                                   BytesLess(EntryAt(x, o), x.target) })
    /\ x.start = x.end
       => (~r.found /\ r.entry = None /\ r.position = x.start)

\* C18: on a range of whole entries that is sorted ascending,
\* file_binary_search returns (True, entry, offset of an entry equal to the
\* target) when the target is in the range, (False, None, offset where the
\* target would be inserted) when it is not, and (False, None, start) on an
\* empty range
C18_BinarySearch ==
    ( /\ lastOp.op = "file_binary_search" /\ lastOp.status = "ok"
      /\ (lastOp.keyword.end - lastOp.keyword.start)
            % lastOp.keyword.entry_size = 0
      /\ SortedRange(lastOp.keyword) )
    => SearchAsSpecified(lastOp.keyword, lastOp.result)

\* a search of entries of two bytes for a target that is absent and belongs
\* between two entries of the range
C18_Witness ==
    /\ lastOp.op = "file_binary_search" /\ lastOp.status = "ok"
    /\ lastOp.keyword.entry_size = 2
    /\ (lastOp.keyword.end - lastOp.keyword.start) % 2 = 0
    /\ SortedRange(lastOp.keyword)
    /\ ~lastOp.result.found
    /\ lastOp.result.position > lastOp.keyword.start
    /\ lastOp.result.position < lastOp.keyword.end

\* the referrers recorded for a url in a tracker (none when it is no key)
ReferrersOf(tracker, url) ==
    IF Has(tracker, StrKey(url)) THEN Get(tracker, StrKey(url)) ELSE << >>

AnchorTargets(data) == { data.anchors[i].url : i \in DOMAIN data.anchors }

\* C19: index(doc) of a new url appends the page id of doc exactly once to
\* the referrers of every distinct anchor target url of doc, also when
\* several anchors point to that url, and changes no other referrers list
C19_ReferrerOncePerTarget ==
    [][(lastOp'.op = "index" /\ lastOp'.status = "ok")
       => /\ \A u \in AnchorTargets(lastOp'.doc) :
                ReferrersOf(references_tracker', u)
                  = Append(ReferrersOf(references_tracker, u),
                           lastOp'.doc.doc_id)
          /\ \A k \in Keys(references_tracker') :
                k[2] \notin AnchorTargets(lastOp'.doc)
                => /\ Has(references_tracker, k)
                   /\ Get(references_tracker', k) = Get(references_tracker, k)
      ]_vars

\* C20: the url -> page id and page id -> url maps are inverse to each
\* other, whatever doc_id the indexed documents carry (stated for the
\* session in which the documents are indexed)
C20_UrlMapsInverse ==
    (session = 1 /\ phase = "open")
    => /\ \A u \in Keys(url_page_id_mapper) :
            /\ Has(page_id_url_mapper, IntKey(Get(url_page_id_mapper, u)))
            /\ StrKey(Get(page_id_url_mapper,
                          IntKey(Get(url_page_id_mapper, u)))) = u
       /\ \A p \in Keys(page_id_url_mapper) :
            /\ Has(url_page_id_mapper, StrKey(Get(page_id_url_mapper, p)))
            /\ IntKey(Get(url_page_id_mapper,
                          StrKey(Get(page_id_url_mapper, p)))) = p

\* the link-graph state that Indexer.load builds from the files of the
\* index directory
LoadedLinks(directory) ==
    [link_out_counts |-> load_dictionary(directory.link_out),
     references_tracker |-> load_dictionary(directory.reference_count),
     url_page_id_mapper |-> load_dictionary(directory.url_mapper),
     page_id_url_mapper |-> load_dictionary(directory.page_id_mapper)]

SameLinks(a, b) ==
    /\ SameDict(a.link_out_counts, b.link_out_counts)
    /\ SameDict(a.references_tracker, b.references_tracker)
    /\ SameDict(a.url_page_id_mapper, b.url_page_id_mapper)
    /\ SameDict(a.page_id_url_mapper, b.page_id_url_mapper)

\* C21: what load() on a new Indexer reads from the files close() leaves is
\* the link-graph state of the moment before the close, with the same keys
\* and values in the four maps, and every page has the rank it had
C21_LinkGraphRestored ==
    [][lastOp'.op = "close"
       => /\ SameLinks(LoadedLinks(files'), links)
          /\ \A p \in DocIds :
                page_rank(LoadedLinks(files'), p) = page_rank(links, p)
      ]_vars

\* the records of a lexicon file, read frame by frame
RECURSIVE LexiconFileRecords(_, _)
LexiconFileRecords(lexicon_data, start) ==
    IF start >= Len(lexicon_data) THEN << >>
    ELSE <<LexiconEntryUnpack(SubSeq(lexicon_data, start + 1,
                                     start + lexicon_data[start + 1] + 1))>>
         \o LexiconFileRecords(lexicon_data,
                               start + lexicon_data[start + 1] + 1)

Ascending(pages) ==
    \A j \in DOMAIN pages : \A k \in DOMAIN pages : j < k => pages[j] < pages[k]

DistinctDocIds ==
    \A i \in DOMAIN indexed : \A j \in DOMAIN indexed :
        i # j => indexed[i].data.doc_id # indexed[j].data.doc_id

\* C22: after close() the lexicon file holds exactly one record for every
\* word id of the in-memory lexicon and none for another word id, and the
\* record lists the page ids of the word once each, ascending (stated for
\* documents with pairwise different doc_ids)
C22_OneLexiconRecordPerWord ==
    (lastOp.op = "close" /\ DistinctDocIds)
    => \E records \in {LexiconFileRecords(files.lexicon, 0)} :
         /\ \A k \in Keys(lexicon) :
               Cardinality({ i \in DOMAIN records :
                               records[i].word_id = k[2] }) = 1
         /\ \A i \in DOMAIN records :
               /\ Has(lexicon, IntKey(records[i].word_id))
               /\ Ascending(records[i].pages)

\* C23: once index(doc) has stored the entry e under the page id p,
\* get_entry(p) returns an entry equal to e after any later index calls of
\* the same session, whatever urls and doc_ids the later documents have
C23_ForwardEntryKept ==
    \A i \in DOMAIN indexed :
        (phase = "open" /\ indexed[i].session = session)
        => \E e \in {get_entry(fwd, files.forward_index,
                               IntKey(indexed[i].data.doc_id))} :
             /\ e.page_id = indexed[i].entry.page_id
             /\ SameDict(e.hits, indexed[i].entry.hits)

\* C24: search_by_keywords(k) changes neither the lexicon, the segment
\* files, the forward offset map, the url maps, the outbound counts, the
\* referrers nor any other file; it changes the word dictionary only when k
\* is a word not seen before, which is registered under the next id, and
\* then the result is empty
C24_SearchChangesOnlyDictionary ==
    [][lastOp'.op = "search"
       => /\ UNCHANGED <<lexicon, position_mapping, index_size,
                         link_out_counts, references_tracker,
                         url_page_id_mapper, page_id_url_mapper, files>>
          /\ \/ UNCHANGED <<dictionary, current_id>>
             \/ /\ ~Has(dictionary, Normalize(lastOp'.keyword))
                /\ dictionary' = Put(dictionary, Normalize(lastOp'.keyword),
                                     WordDictionaryEntry(
                                         Normalize(lastOp'.keyword), current_id))
                /\ current_id' = current_id + 1
                /\ lastOp'.status = "none"
                /\ lastOp'.result = << >>
      ]_vars

\* a search, in an index that holds documents, for a keyword that the
\* search itself registered
C24_Witness ==
    /\ lastOp.op = "search"
    /\ Len(indexed) > 0 /\ lexicon # EmptyDict
    /\ Len(issued) > 0
    /\ issued[Len(issued)][1] = Normalize(lastOp.keyword)
    /\ ~Has(lexicon, IntKey(issued[Len(issued)][2]))
    /\ current_id = issued[Len(issued)][2] + 1

\* the lexicon of a ReverseIndex in use; before load() has run, or after it
\* raised, the lexicon that _load_lexicon builds from the file
LexiconInUse ==
    IF phase \in {"open", "closed"} THEN lexicon
    ELSE load_lexicon(EmptyDict, files.lexicon, 0)

C26_ReferrersHaveOutboundCount ==
    (phase = "open" /\ DistinctDocIds)
    => /\ \A k \in Keys(references_tracker) :
             \A p \in Range(Get(references_tracker, k)) :
                /\ Has(link_out_counts, IntKey(p))
                /\ Get(link_out_counts, IntKey(p)) >= 1
       /\ lastOp.op = "search"
          => lastOp.status \notin {"KeyError", "ZeroDivisionError"}

=============================================================================
